---- MODULE Spec2Model ----
(***************************************************************************)
(* Model of backend/tasks/scoring.py (class TaskScorer): the four factor   *)
(* scorers, the dependency-cycle detector (recursive DFS), score_task,     *)
(* analyze_tasks and get_top_suggestions.                                  *)
(*                                                                         *)
(* Representation.                                                         *)
(*  - A task is a Python dict: a function whose DOMAIN is the set of keys  *)
(*    the dict carries ("title", and optionally "id", "due_date",          *)
(*    "importance", "estimated_hours", "dependencies").                    *)
(*  - A date is a day number; the ambient clock is the variable today.     *)
(*  - Scores are fixed point in hundredths (95.0 is 9500), hours are in    *)
(*    hundredths of an hour (2.0 is 200), weights are in hundredths        *)
(*    (0.35 is 35); the unrounded weighted sum is therefore in             *)
(*    ten-thousandths and round(x, 2) divides it by 100, half to even.     *)
(*  - A message string is a sequence of string tokens; None is <<>>.       *)
(***************************************************************************)
EXTENDS Integers, Sequences, FiniteSets, TLC

VARIABLES
    tasks,          \* the batch handed to the call (list of dicts)
    strategy,       \* self.strategy, fixed at construction
    hashOf,         \* hash() of each title in this process
    today,          \* ambient clock: datetime.now().date()
    op,             \* the top-level method being executed ("idle" if none)
    arg,            \* its scalar argument: count, task index or task_id
    pc,             \* position inside the call
    keys,           \* insertion order of the keys of task_map / graph
    graph,          \* graph: key -> list of dependencies
    visited,        \* visited set of detect_circular_dependencies
    rec_stack,      \* rec_stack set
    path,           \* the path list shared by the dfs frames
    cycle_path,     \* cycle_path list
    frames,         \* call stack of dfs: <<node, index of next neighbour>>
    loopIdx,        \* position of "for task_id in graph"
    entered,        \* history: nodes in the order dfs was entered on them
    detect_ret,     \* value returned by detect_circular_dependencies
    sidx,           \* index of the task the list comprehension is scoring
    cur,            \* locals of score_task after the defaults (line 275)
    scored_tasks,   \* scored_tasks built so far
    score_ret,      \* value returned by a direct score_task call
    analyze_ret,    \* value returned by analyze_tasks
    suggestions,    \* value returned by get_top_suggestions
    dep_ret,        \* value returned by a direct calculate_dependency_score
    factor_ret,     \* value returned by a direct call of another factor scorer
    seen            \* caller's memory: one earlier call and what it returned

vars == <<tasks, strategy, hashOf, today, op, arg, pc, keys, graph, visited,
          rec_stack, path, cycle_path, frames, loopIdx, entered, detect_ret,
          sidx, cur, scored_tasks, score_ret, analyze_ret, suggestions, dep_ret,
          factor_ret, seen>>

(***************************************************************************)
(* Bounds of the model.                                                    *)
(***************************************************************************)
MaxTasks == 2       \* tasks in a batch of the dependency-graph family
MaxEdges == 3       \* dependency entries in such a batch, all tasks together
MaxAttrTasks == 2   \* tasks in a batch of the attribute family
MaxDay == 1         \* midnights the clock may pass
MaxCount == 2       \* largest count given to get_top_suggestions
MaxOverdue == 7     \* days a due date handed to the urgency scorer lies back
MaxDue == 152       \* days such a due date lies ahead
MaxImportance == 11 \* largest rating handed to the importance scorer
MaxHours == 1300    \* longest estimate handed to the effort scorer (13 hours)

None == <<>>

Min(a, b) == IF a <= b THEN a ELSE b
Max(a, b) == IF a >= b THEN a ELSE b
Abs(a) == IF a < 0 THEN -a ELSE a

\* dict.get(key, default)
Get(d, k, default) == IF k \in DOMAIN d THEN d[k] ELSE default

\* list.index(x): position (1-based here) of the first occurrence
Index(s, x) == CHOOSE i \in 1..Len(s) : s[i] = x /\ \A j \in 1..(i-1) : s[j] # x

Contains(s, x) == \E i \in 1..Len(s) : s[i] = x


(***************************************************************************)
(* Strategies (scoring.py 10-45).  Weights in hundredths.                  *)
(***************************************************************************)
STRATEGIES ==
    [smart_balance   |-> [urgency |-> 35, importance |-> 30, effort |-> 20, dependency |-> 15],
     fastest_wins    |-> [urgency |-> 20, importance |-> 15, effort |-> 50, dependency |-> 15],
     high_impact     |-> [urgency |-> 20, importance |-> 60, effort |-> 10, dependency |-> 10],
     deadline_driven |-> [urgency |-> 70, importance |-> 20, effort |-> 5,  dependency |-> 5]]

\* Mutant of Weights: the fallback is another strategy.
Weights_fallback(s) == Get(STRATEGIES, s, STRATEGIES["fastest_wins"])

\* self.weights = self.STRATEGIES.get(strategy, self.STRATEGIES['smart_balance'])
Weights(s) == Get(STRATEGIES, s, STRATEGIES["smart_balance"])

(***************************************************************************)
(* Factor scorers.                                                         *)
(***************************************************************************)
\* Mutant of calculate_urgency_score: the range tests exclude their bound.
calculate_urgency_score_excl(due_date, now) ==
    LET days_until_due == due_date - now IN
    IF days_until_due < 0 THEN
        <<Min(10000, 8000 + Abs(days_until_due) * 400), days_until_due>>
    ELSE IF days_until_due = 0 THEN <<9500, days_until_due>>
    ELSE IF days_until_due < 3 THEN <<9000 - days_until_due * 500, days_until_due>>
    ELSE IF days_until_due < 7 THEN <<7000 - (days_until_due - 3) * 500, days_until_due>>
    ELSE IF days_until_due < 14 THEN <<5000 - (days_until_due - 7) * 200, days_until_due>>
    ELSE IF days_until_due < 30 THEN
        <<Max(1000, 3000 - (days_until_due - 14) * 100), days_until_due>>
    ELSE <<Max(500, 2000 - days_until_due * 10), days_until_due>>

\* calculate_urgency_score: now is the value datetime.now().date() returns
\* when line 58 runs.  Result <<score, days_until_due>>.
calculate_urgency_score(due_date, now) ==
    LET days_until_due == due_date - now IN
    IF days_until_due < 0 THEN
        <<Min(10000, 8000 + Abs(days_until_due) * 400), days_until_due>>
    ELSE IF days_until_due = 0 THEN <<9500, days_until_due>>
    ELSE IF days_until_due <= 3 THEN <<9000 - days_until_due * 500, days_until_due>>
    ELSE IF days_until_due <= 7 THEN <<7000 - (days_until_due - 3) * 500, days_until_due>>
    ELSE IF days_until_due <= 14 THEN <<5000 - (days_until_due - 7) * 200, days_until_due>>
    ELSE IF days_until_due <= 30 THEN
        <<Max(1000, 3000 - (days_until_due - 14) * 100), days_until_due>>
    ELSE <<Max(500, 2000 - days_until_due * 10), days_until_due>>

\* Mutant of calculate_importance_score: the boost is not capped.
calculate_importance_score_uncapped(importance) ==
    LET base_score == importance * 1000 IN
    IF importance >= 8 THEN (base_score * 11) \div 10 ELSE base_score

\* calculate_importance_score: (importance / 10) * 100, times 1.1 capped at
\* 100 from importance 8 on.
calculate_importance_score(importance) ==
    LET base_score == importance * 1000 IN
    IF importance >= 8 THEN Min(10000, (base_score * 11) \div 10) ELSE base_score

\* Mutant of calculate_effort_score: the tail falls by 5 per hour, not by 8.
calculate_effort_score_slope(estimated_hours) ==
    IF estimated_hours <= 50 THEN 9500
    ELSE IF estimated_hours <= 100 THEN 8500
    ELSE IF estimated_hours <= 200 THEN 7500
    ELSE IF estimated_hours <= 400 THEN 6000
    ELSE IF estimated_hours <= 800 THEN 4000
    ELSE Max(1000, 10000 - estimated_hours * 5)

\* calculate_effort_score: hours in hundredths of an hour.
calculate_effort_score(estimated_hours) ==
    IF estimated_hours <= 50 THEN 9500
    ELSE IF estimated_hours <= 100 THEN 8500
    ELSE IF estimated_hours <= 200 THEN 7500
    ELSE IF estimated_hours <= 400 THEN 6000
    ELSE IF estimated_hours <= 800 THEN 4000
    ELSE Max(1000, 10000 - estimated_hours * 8)

\* The loop of calculate_dependency_score (lines 215-220) over tasks[1..n].
RECURSIVE DependentCount(_, _, _)
DependentCount(task_id, ts, n) ==
    IF n = 0 THEN 0
    ELSE DependentCount(task_id, ts, n - 1)
         + (IF Contains(Get(ts[n], "dependencies", <<>>), task_id) THEN 1 ELSE 0)

\* The score ladder of calculate_dependency_score (lines 223-231).
DependencyLadder(dependent_count) ==
    IF dependent_count = 0 THEN <<1000, 0>>
    ELSE IF dependent_count = 1 THEN <<4000, 1>>
    ELSE IF dependent_count = 2 THEN <<7000, 2>>
    ELSE <<Min(10000, 7000 + (dependent_count - 2) * 1500), dependent_count>>

\* calculate_dependency_score: <<dependency_score, dependent_count>>.
calculate_dependency_score(task_id, ts) ==
    DependencyLadder(DependentCount(task_id, ts, Len(ts)))

(***************************************************************************)
(* Text helpers: a string is a sequence of string tokens.                  *)
(***************************************************************************)
\* sep.join(parts), parts a sequence of token sequences
RECURSIVE Join(_, _)
Join(parts, sep) ==
    IF Len(parts) = 0 THEN <<>>
    ELSE IF Len(parts) = 1 THEN parts[1]
    ELSE parts[1] \o <<sep>> \o Join(Tail(parts), sep)

\* map(str, ids)
StrEach(ids) == [i \in 1..Len(ids) |-> <<ToString(ids[i])>>]

\* _generate_explanation (lines 330-376)
generate_explanation(urgency_score, importance_score, days_until_due, dependent_count, estimated_hours) ==
    LET r1 == IF days_until_due < 0
                  THEN << <<"overdue by ", ToString(Abs(days_until_due)), " day(s)">> >>
              ELSE IF days_until_due = 0 THEN << <<"due today">> >>
              ELSE IF days_until_due <= 3
                  THEN << <<"due in ", ToString(days_until_due), " day(s)">> >>
              ELSE IF urgency_score > 5000 THEN << <<"approaching deadline">> >>
              ELSE <<>>
        r2 == IF importance_score >= 8000 THEN << <<"high importance rating">> >>
              ELSE IF importance_score >= 6000 THEN << <<"moderate importance">> >>
              ELSE <<>>
        r3 == IF estimated_hours <= 100 THEN << <<"quick win (<1 hour)">> >>
              ELSE IF estimated_hours <= 200 THEN << <<"short task">> >>
              ELSE IF estimated_hours >= 800 THEN << <<"substantial effort required">> >>
              ELSE <<>>
        r4 == IF dependent_count > 0
                  THEN << <<"blocks ", ToString(dependent_count), " other task(s)">> >>
              ELSE <<>>
        reasons == r1 \o r2 \o r3 \o r4
    IN  IF reasons = <<>> THEN <<"Standard priority task">>
        ELSE <<"Priority due to: ">> \o Join(reasons, ", ") \o <<".">>

\* round(x, 2) of a value in ten-thousandths: the result is in hundredths.
Round2(x) ==
    LET q == x \div 100
        r == x % 100
    IN  IF r > 50 THEN q + 1
        ELSE IF r < 50 THEN q
        ELSE IF q % 2 = 0 THEN q ELSE q + 1

(***************************************************************************)
(* score_task (lines 233-328), in the two parts the clock separates.       *)
(***************************************************************************)
\* Lines 249-275: the locals after the defaults; now is the clock value read
\* by line 271 (read only when the task carries no due date).
ScoreDefaults(task, now) ==
    LET id == Get(task, "id", 0)
        imp == Get(task, "importance", 5)
        hrs == Get(task, "estimated_hours", 200)
    IN  [task_id |-> IF id # 0 THEN id ELSE hashOf[task["title"]],
         title |-> task["title"],
         due_date |-> IF "due_date" \in DOMAIN task THEN task["due_date"] ELSE now + 7,
         importance |-> IF imp # 0 THEN imp ELSE 5,
         estimated_hours |-> IF hrs # 0 THEN hrs ELSE 200,
         dependencies |-> Get(task, "dependencies", <<>>)]

\* if priority_score >= 75 / >= 50 / else, on the unrounded sum (lines 305-310)
PriorityLevel(priority_score) ==
    IF priority_score >= 750000 THEN "High"
    ELSE IF priority_score >= 500000 THEN "Medium"
    ELSE "Low"

\* Lines 278-328: now is the clock value read by line 58.
ScoreRecord(c, ts, now, w) ==
    LET u == calculate_urgency_score(c.due_date, now)
        importance_score == calculate_importance_score(c.importance)
        effort_score == calculate_effort_score(c.estimated_hours)
        d == calculate_dependency_score(c.task_id, ts)
        priority_score == w.urgency * u[1] + w.importance * importance_score
                          + w.effort * effort_score + w.dependency * d[1]
    IN  [id |-> c.task_id,
         title |-> c.title,
         priority_score |-> Round2(priority_score),
         urgency_score |-> u[1],
         importance_score |-> importance_score,
         effort_score |-> effort_score,
         dependency_score |-> d[1],
         explanation |-> generate_explanation(u[1], importance_score, u[2], d[2],
                                              c.estimated_hours),
         priority_level |-> PriorityLevel(priority_score),
         days_until_due |-> u[2],
         due_date |-> c.due_date,
         estimated_hours |-> c.estimated_hours,
         importance |-> c.importance,
         dependencies |-> c.dependencies]

(***************************************************************************)
(* analyze_tasks and get_top_suggestions: the pure parts.                  *)
(***************************************************************************)
\* Mutant of InsertDesc: x goes before the elements whose key equals its own.
RECURSIVE InsertDesc_before(_, _)
InsertDesc_before(s, x) ==
    IF s = <<>> THEN <<x>>
    ELSE IF s[1].priority_score > x.priority_score
        THEN <<s[1]>> \o InsertDesc_before(Tail(s), x)
    ELSE <<x>> \o s

\* One insertion of sorted(..., reverse=True): x goes behind every element
\* whose key is >= its own, so equal keys keep their input order.
RECURSIVE InsertDesc(_, _)
InsertDesc(s, x) ==
    IF s = <<>> THEN <<x>>
    ELSE IF s[1].priority_score >= x.priority_score
        THEN <<s[1]>> \o InsertDesc(Tail(s), x)
    ELSE <<x>> \o s

\* Mutant of SortDesc: the list is returned as it was scored.
SortDesc_unsorted(s) == s

\* sorted(scored_tasks, key=lambda x: x['priority_score'], reverse=True)
RECURSIVE SortDesc(_)
SortDesc(s) ==
    IF s = <<>> THEN <<>>
    ELSE InsertDesc(SortDesc(SubSeq(s, 1, Len(s) - 1)), s[Len(s)])

\* f"Circular dependency detected: {' -> '.join(map(str, cycle_path))}"
CycleMessage(cp) == <<"Circular dependency detected: ">> \o Join(StrEach(cp), " -> ")

\* _generate_detailed_suggestion (lines 445-464)
generate_detailed_suggestion(task, rank) ==
    LET base == <<"Suggestion #", ToString(rank), ": ">> IN
    IF task.days_until_due < 0 THEN
        base \o <<"This task is overdue and should be addressed immediately. ">>
             \o task.explanation
    ELSE IF task.days_until_due = 0 THEN
        base \o <<"This task is due today. ">> \o task.explanation
    ELSE IF task.priority_score >= 7500 THEN
        base \o <<"High priority task. ">> \o task.explanation
    ELSE base \o <<"Recommended based on balanced factors. ">> \o task.explanation

\* Mutant of Take: the slice is one element too long.
Take_one_more(s, count) == SubSeq(s, 1, Min(count + 1, Len(s)))

\* sorted_tasks[:count] for count >= 0
Take(s, count) == SubSeq(s, 1, Min(count, Len(s)))

\* Lines 431-443: the suggestions built from the sorted tasks.
BuildSuggestions(sorted_tasks, count) ==
    LET top_tasks == Take(sorted_tasks, count) IN
    [rank \in 1..Len(top_tasks) |->
        [task |-> top_tasks[rank],
         score |-> top_tasks[rank].priority_score,
         explanation |-> generate_detailed_suggestion(top_tasks[rank], rank),
         rank |-> rank]]

(***************************************************************************)
(* detect_circular_dependencies: the adjacency list (lines 159-163).       *)
(***************************************************************************)
\* Mutant of KeyOf: every task is registered under its position.
KeyOf_position(ts, i) == i - 1

\* task.get('id', i) with i from enumerate(tasks), which counts from 0
KeyOf(ts, i) == Get(ts[i], "id", i - 1)

\* The keys of task_map in insertion order: a repeated key keeps the place
\* of its first occurrence.
RECURSIVE KeyOrder(_, _)
KeyOrder(ts, n) ==
    IF n = 0 THEN <<>>
    ELSE LET before == KeyOrder(ts, n - 1) IN
         IF Contains(before, KeyOf(ts, n)) THEN before
         ELSE Append(before, KeyOf(ts, n))

\* graph: a repeated key keeps the value of its last occurrence.
BuildGraph(ts) ==
    [k \in {KeyOf(ts, i) : i \in 1..Len(ts)} |->
        LET last == CHOOSE i \in 1..Len(ts) :
                        /\ KeyOf(ts, i) = k
                        /\ \A j \in (i+1)..Len(ts) : KeyOf(ts, j) # k
        IN  Get(ts[last], "dependencies", <<>>)]

\* Mutant of Neighbors: only the first dependency is followed.
Neighbors_first(g, node) == SubSeq(Get(g, node, <<>>), 1, Min(1, Len(Get(g, node, <<>>))))

\* graph.get(node, [])
Neighbors(g, node) == Get(g, node, <<>>)

(***************************************************************************)
(* The inputs: the batches a call may be given.                            *)
(***************************************************************************)
\* identifiers a dependency entry may name; those above the batch's length
\* are identifiers of no task of the batch
DepIds == 1..(MaxTasks + 1)

SeqsUpTo(S, k) == UNION {[1..m -> S] : m \in 0..k}

\* the sequences of n dependency lists holding at most e entries together
RECURSIVE DepLists(_, _)
DepLists(n, e) ==
    IF n = 0 THEN {<<>>}
    ELSE UNION { {Append(rest, d) : rest \in DepLists(n - 1, e - Len(d))} :
                 d \in SeqsUpTo(DepIds, e) }

\* Dependency-graph family: task i carries id i and any dependency list.
GraphBatches ==
    UNION { {[i \in 1..n |-> [id |-> i, title |-> "T", dependencies |-> dl[i]]] :
                dl \in DepLists(n, MaxEdges)} : n \in 0..MaxTasks }

\* The batches of tests.py: the cycle and the chain of the two cycle tests,
\* the batch of test_dependency_score_calculation, and the batches of
\* test_complete_task_scoring, test_task_sorting and test_top_suggestions
\* (dates are days from the day the call starts).
T(id, deps) == [id |-> id, title |-> "T", dependencies |-> deps]
F(id, due, hours, imp, deps) ==
    [id |-> id, title |-> "T", due_date |-> due, estimated_hours |-> hours,
     importance |-> imp, dependencies |-> deps]
FixtureBatches ==
    { <<T(1, <<3>>), T(2, <<1>>), T(3, <<2>>)>>,
      <<T(1, <<>>), T(2, <<1>>), T(3, <<2>>)>>,
      <<T(1, <<>>), T(2, <<1>>), T(3, <<1>>), T(4, <<1>>)>>,
      <<F(1, 1, 200, 9, <<>>), F(2, 5, 300, 7, <<1>>)>>,
      <<F(1, 30, 1000, 3, <<>>), F(2, 0, 100, 9, <<>>), F(3, 5, 300, 6, <<>>)>>,
      <<F(1, 0, 200, 8, <<>>), F(2, 1, 100, 7, <<>>), F(3, 10, 500, 5, <<>>)>> }

\* Attribute family: the minimal task of test_missing_data_handling and tasks
\* that differ in every attribute, one of them due on the default date and
\* one overdue, and a task without id whose dependency names a position.
AttrTasks ==
    { [title |-> "X"],
      [title |-> "Y", dependencies |-> <<0>>],
      [id |-> 1, title |-> "A", due_date |-> 30, estimated_hours |-> 1000,
       importance |-> 3, dependencies |-> <<>>],
      [id |-> 2, title |-> "B", due_date |-> 0, estimated_hours |-> 100,
       importance |-> 9, dependencies |-> <<>>],
      [id |-> 3, title |-> "C", due_date |-> 5, estimated_hours |-> 300,
       importance |-> 6, dependencies |-> <<2>>],
      [id |-> 4, title |-> "D", due_date |-> 7, estimated_hours |-> 200,
       importance |-> 5, dependencies |-> <<>>],
      [id |-> 5, title |-> "E", due_date |-> -5, estimated_hours |-> 50,
       importance |-> 8, dependencies |-> <<2>>] }

AttrBatches == UNION {[1..n -> AttrTasks] : n \in 1..MaxAttrTasks}

Titles == {"T", "X", "Y", "A", "B", "C", "D", "E", "S", "O"}

\* hash(title) is fixed within a process and differs between processes; the
\* title of the task without id hashes to an unused number or to another
\* task's id.
HashChoices == {[t \in Titles |-> IF t = "X" THEN h ELSE 90] : h \in {2, 91}}

StrategyNames == {"smart_balance", "fastest_wins", "high_impact", "deadline_driven"}

\* The state of a scorer on which no method was called yet.
NoCall ==
    /\ op = "idle"
    /\ arg = 0
    /\ pc = "idle"
    /\ keys = <<>>
    /\ graph = <<>>
    /\ visited = {}
    /\ rec_stack = {}
    /\ path = <<>>
    /\ cycle_path = <<>>
    /\ frames = <<>>
    /\ loopIdx = 0
    /\ entered = <<>>
    /\ detect_ret = <<>>
    /\ sidx = 0
    /\ cur = <<>>
    /\ scored_tasks = <<>>
    /\ score_ret = <<>>
    /\ analyze_ret = <<>>
    /\ suggestions = <<>>
    /\ dep_ret = <<>>
    /\ factor_ret = <<>>
    /\ seen = {}

Init ==
    /\ tasks \in GraphBatches \cup FixtureBatches \cup AttrBatches
    /\ strategy \in StrategyNames \cup {"unknown"}
    /\ hashOf \in HashChoices
    /\ tasks \notin AttrBatches => (strategy = "smart_balance" /\ hashOf["X"] = 91)
    /\ tasks \in AttrBatches =>
          /\ strategy \in {"smart_balance", "unknown", "deadline_driven"}
          /\ (hashOf["X"] = 2 => \E i \in 1..Len(tasks) : tasks[i] = [title |-> "X"])
    /\ today = 0
    /\ NoCall

(***************************************************************************)
(* The calls.  A *_ret variable is <<>> until the call returns and <<v>>   *)
(* once it returned v.                                                     *)
(***************************************************************************)
detectVars == <<keys, graph, visited, rec_stack, path, cycle_path, frames, loopIdx,
                entered, detect_ret>>
scoreVars == <<sidx, cur, scored_tasks, score_ret>>
inputVars == <<tasks, strategy, hashOf>>
\* what belongs to the caller and to the directly called factor scorers
callerVars == <<factor_ret, seen>>

\* where analyze_tasks returns to
AfterAnalyze == IF op = "get_top_suggestions" THEN "suggest" ELSE "done"

\* where detect_circular_dependencies returns to
AfterDetect == IF op = "detect_circular_dependencies" THEN "done" ELSE "checked"

\* scorer.analyze_tasks(tasks)
CallAnalyze ==
    /\ pc = "idle"
    /\ op' = "analyze_tasks"
    /\ pc' = "analyze"
    /\ UNCHANGED <<inputVars, callerVars, today, arg, detectVars, scoreVars, analyze_ret,
                   suggestions, dep_ret>>

\* scorer.get_top_suggestions(tasks, count): line 426 delegates at once.
\* count is not read before line 431; it is drawn there.
CallSuggest ==
    /\ pc = "idle"
    /\ op' = "get_top_suggestions"
    /\ pc' = "analyze"
    /\ UNCHANGED <<inputVars, callerVars, today, arg, detectVars, scoreVars, analyze_ret,
                   suggestions, dep_ret>>

\* scorer.detect_circular_dependencies(tasks)
CallDetect ==
    /\ pc = "idle"
    /\ op' = "detect_circular_dependencies"
    /\ pc' = "build"
    /\ UNCHANGED <<inputVars, callerVars, today, arg, detectVars, scoreVars, analyze_ret,
                   suggestions, dep_ret>>

\* scorer.score_task(tasks[i], tasks)
CallScore(i) ==
    /\ pc = "idle"
    /\ i \in 1..Len(tasks)
    /\ op' = "score_task"
    /\ arg' = i
    /\ sidx' = i
    /\ pc' = "score_begin"
    /\ UNCHANGED <<inputVars, callerVars, today, detectVars, cur, scored_tasks, score_ret,
                   analyze_ret, suggestions, dep_ret>>

\* scorer.calculate_dependency_score(task_id, tasks): no clock, one step
CallDependencyScore(task_id) ==
    /\ pc = "idle"
    /\ op' = "calculate_dependency_score"
    /\ arg' = task_id
    /\ dep_ret' = <<calculate_dependency_score(task_id, tasks)>>
    /\ pc' = "done"
    /\ UNCHANGED <<inputVars, callerVars, today, detectVars, scoreVars, analyze_ret, suggestions>>

\* Lines 391-392: if not tasks: return [], "No tasks provided"
AnalyzeEmpty ==
    /\ pc = "analyze"
    /\ tasks = <<>>
    /\ analyze_ret' = << <<<<>>, <<"No tasks provided">>>> >>
    /\ pc' = AfterAnalyze
    /\ UNCHANGED <<inputVars, callerVars, today, op, arg, detectVars, scoreVars, suggestions, dep_ret>>

\* Line 395: the call of detect_circular_dependencies
AnalyzeDetect ==
    /\ pc = "analyze"
    /\ tasks # <<>>
    /\ pc' = "build"
    /\ UNCHANGED <<inputVars, callerVars, today, op, arg, detectVars, scoreVars, analyze_ret,
                   suggestions, dep_ret>>

\* Mutant of DetectBuild: visited outlives the call (as an attribute of the
\* scorer would).
DetectBuild_stale ==
    /\ pc = "build"
    /\ keys' = KeyOrder(tasks, Len(tasks))
    /\ graph' = BuildGraph(tasks)
    /\ visited' = visited
    /\ rec_stack' = {}
    /\ cycle_path' = <<>>
    /\ path' = <<>>
    /\ frames' = <<>>
    /\ entered' = <<>>
    /\ loopIdx' = 1
    /\ pc' = "loop"
    /\ UNCHANGED <<inputVars, callerVars, today, op, arg, detect_ret, scoreVars, analyze_ret,
                   suggestions, dep_ret>>

\* Lines 159-167: task_map, graph and the fresh visited, rec_stack, cycle_path
DetectBuild ==
    /\ pc = "build"
    /\ keys' = KeyOrder(tasks, Len(tasks))
    /\ graph' = BuildGraph(tasks)
    /\ visited' = {}
    /\ rec_stack' = {}
    /\ cycle_path' = <<>>
    /\ path' = <<>>
    /\ frames' = <<>>
    /\ entered' = <<>>
    /\ loopIdx' = 1
    /\ pc' = "loop"
    /\ UNCHANGED <<inputVars, callerVars, today, op, arg, detect_ret, scoreVars, analyze_ret,
                   suggestions, dep_ret>>

\* Mutant of DfsEnter: visited.add(node) is missing.
DfsEnter_unmarked(node, p) ==
    /\ visited' = visited
    /\ rec_stack' = rec_stack \cup {node}
    /\ path' = Append(p, node)
    /\ frames' = Append(frames, [node |-> node, i |-> 1])
    /\ entered' = Append(entered, node)

\* Lines 173-175, the entry of dfs(node, path): the caller's frame stays below
DfsEnter(node, p) ==
    /\ visited' = visited \cup {node}
    /\ rec_stack' = rec_stack \cup {node}
    /\ path' = Append(p, node)
    /\ frames' = Append(frames, [node |-> node, i |-> 1])
    /\ entered' = Append(entered, node)

\* Lines 191-193: a key not yet visited starts dfs(task_id, [])
LoopCall ==
    /\ pc = "loop"
    /\ loopIdx <= Len(keys)
    /\ keys[loopIdx] \notin visited
    /\ DfsEnter(keys[loopIdx], <<>>)
    /\ pc' = "dfs"
    /\ UNCHANGED <<inputVars, callerVars, today, op, arg, keys, graph, cycle_path, loopIdx,
                   detect_ret, scoreVars, analyze_ret, suggestions, dep_ret>>

\* Line 192: a key already visited is passed over
LoopSkip ==
    /\ pc = "loop"
    /\ loopIdx <= Len(keys)
    /\ keys[loopIdx] \in visited
    /\ loopIdx' = loopIdx + 1
    /\ UNCHANGED <<inputVars, callerVars, today, op, arg, pc, keys, graph, visited, rec_stack, path,
                   cycle_path, frames, entered, detect_ret, scoreVars, analyze_ret,
                   suggestions, dep_ret>>

\* Line 196: return False, []
LoopEnd ==
    /\ pc = "loop"
    /\ loopIdx > Len(keys)
    /\ detect_ret' = << <<FALSE, <<>>>> >>
    /\ pc' = AfterDetect
    /\ UNCHANGED <<inputVars, callerVars, today, op, arg, keys, graph, visited, rec_stack, path,
                   cycle_path, frames, loopIdx, entered, scoreVars, analyze_ret,
                   suggestions, dep_ret>>

Top == frames[Len(frames)]
TopNeighbors == Neighbors(graph, Top.node)

\* Lines 178-179: the neighbour is not visited, dfs recurses into it
DfsVisit ==
    /\ pc = "dfs"
    /\ Top.i <= Len(TopNeighbors)
    /\ TopNeighbors[Top.i] \notin visited
    /\ DfsEnter(TopNeighbors[Top.i], path)
    /\ UNCHANGED <<inputVars, callerVars, today, op, arg, pc, keys, graph, cycle_path, loopIdx,
                   detect_ret, scoreVars, analyze_ret, suggestions, dep_ret>>

\* Lines 178, 181: the neighbour is visited and off the stack, next neighbour
DfsSkip ==
    /\ pc = "dfs"
    /\ Top.i <= Len(TopNeighbors)
    /\ TopNeighbors[Top.i] \in visited
    /\ TopNeighbors[Top.i] \notin rec_stack
    /\ frames' = [frames EXCEPT ![Len(frames)].i = @ + 1]
    /\ UNCHANGED <<inputVars, callerVars, today, op, arg, pc, keys, graph, visited, rec_stack, path,
                   cycle_path, loopIdx, entered, detect_ret, scoreVars, analyze_ret,
                   suggestions, dep_ret>>

\* Mutant of CycleSlice: the whole traversal path is reported.
CycleSlice_whole(p, neighbor) == p

\* path[cycle_start:] with cycle_start = path.index(neighbor) (lines 183-184)
CycleSlice(p, neighbor) == SubSeq(p, Index(p, neighbor), Len(p))

\* Lines 181-185 and 179-180, 193-194: the neighbour is on the stack; every
\* frame returns True and detect_circular_dependencies returns the path.
DfsCycle ==
    /\ pc = "dfs"
    /\ Top.i <= Len(TopNeighbors)
    /\ TopNeighbors[Top.i] \in visited
    /\ TopNeighbors[Top.i] \in rec_stack
    /\ cycle_path' = cycle_path \o CycleSlice(path, TopNeighbors[Top.i])
    /\ detect_ret' = << <<TRUE, cycle_path'>> >>
    /\ pc' = AfterDetect
    /\ UNCHANGED <<inputVars, callerVars, today, op, arg, keys, graph, visited, rec_stack, path,
                   frames, loopIdx, entered, scoreVars, analyze_ret, suggestions, dep_ret>>

\* Lines 187-189: the neighbours are exhausted; path.pop(), rec_stack.remove
\* and return False to the caller, which goes on with its next neighbour or,
\* for the outermost frame, with the next key.
DfsReturn ==
    /\ pc = "dfs"
    /\ Top.i > Len(TopNeighbors)
    /\ path' = SubSeq(path, 1, Len(path) - 1)
    /\ rec_stack' = rec_stack \ {Top.node}
    /\ IF Len(frames) = 1
          THEN /\ frames' = <<>>
               /\ loopIdx' = loopIdx + 1
               /\ pc' = "loop"
          ELSE /\ frames' = [SubSeq(frames, 1, Len(frames) - 1)
                                EXCEPT ![Len(frames) - 1].i = @ + 1]
               /\ UNCHANGED <<loopIdx, pc>>
    /\ UNCHANGED <<inputVars, callerVars, today, op, arg, keys, graph, visited, cycle_path, entered,
                   detect_ret, scoreVars, analyze_ret, suggestions, dep_ret>>

\* Mutant of HasCycle: the result of the cycle check is not looked at.
HasCycle_ignored(ret) == FALSE

\* has_cycle, cycle_path = ...; if has_cycle: (lines 395-396)
HasCycle(ret) == ret[1][1]

\* Lines 396-397: the batch has a cycle, nothing is scored
AnalyzeCycle ==
    /\ pc = "checked"
    /\ HasCycle(detect_ret)
    /\ analyze_ret' = << <<<<>>, CycleMessage(detect_ret[1][2])>> >>
    /\ pc' = AfterAnalyze
    /\ UNCHANGED <<inputVars, callerVars, today, op, arg, detectVars, scoreVars, suggestions, dep_ret>>

\* Lines 396, 400: no cycle, the list comprehension starts
AnalyzeScore ==
    /\ pc = "checked"
    /\ ~HasCycle(detect_ret)
    /\ sidx' = 1
    /\ scored_tasks' = <<>>
    /\ pc' = "score_begin"
    /\ UNCHANGED <<inputVars, callerVars, today, op, arg, detectVars, cur, score_ret, analyze_ret,
                   suggestions, dep_ret>>

\* score_task, lines 249-275, for tasks[sidx]: line 271 reads the clock
ScoreBegin ==
    /\ pc = "score_begin"
    /\ sidx <= Len(tasks)
    /\ cur' = <<ScoreDefaults(tasks[sidx], today)>>
    /\ pc' = "score_urgency"
    /\ UNCHANGED <<inputVars, callerVars, today, op, arg, detectVars, sidx, scored_tasks, score_ret,
                   analyze_ret, suggestions, dep_ret>>

\* score_task, lines 278-328: line 58 reads the clock; the record goes to the
\* caller, or into scored_tasks when analyze_tasks called.
ScoreFinish ==
    /\ pc = "score_urgency"
    /\ LET rec == ScoreRecord(cur[1], tasks, today, Weights(strategy)) IN
       IF op = "score_task"
          THEN /\ score_ret' = <<rec>>
               /\ pc' = "done"
               /\ UNCHANGED <<sidx, scored_tasks>>
          ELSE /\ scored_tasks' = Append(scored_tasks, rec)
               /\ sidx' = sidx + 1
               /\ pc' = "score_begin"
               /\ UNCHANGED score_ret
    /\ cur' = <<>>
    /\ UNCHANGED <<inputVars, callerVars, today, op, arg, detectVars, analyze_ret, suggestions, dep_ret>>

\* Lines 403-409: every task is scored; sort and return
AnalyzeSort ==
    /\ pc = "score_begin"
    /\ op # "score_task"
    /\ sidx > Len(tasks)
    /\ analyze_ret' = << <<SortDesc(scored_tasks), None>> >>
    /\ pc' = AfterAnalyze
    /\ UNCHANGED <<inputVars, callerVars, today, op, arg, detectVars, scoreVars, suggestions, dep_ret>>

\* get_top_suggestions(tasks, count), lines 428-443
SuggestBuild(count) ==
    /\ pc = "suggest"
    /\ arg' = count
    /\ suggestions' = IF analyze_ret[1][2] # None THEN << <<>> >>
                      ELSE <<BuildSuggestions(analyze_ret[1][1], count)>>
    /\ pc' = "done"
    /\ UNCHANGED <<inputVars, callerVars, today, op, detectVars, scoreVars, analyze_ret, dep_ret>>

\* Midnight passes while a call is running.
Tick ==
    /\ pc \notin {"idle", "done"}
    /\ today < MaxDay
    /\ today' = today + 1
    /\ UNCHANGED <<inputVars, callerVars, op, arg, pc, detectVars, scoreVars, analyze_ret,
                   suggestions, dep_ret>>

Next ==
    \/ CallAnalyze
    \/ CallSuggest
    \/ CallDetect
    \/ \E i \in 1..Len(tasks) : CallScore(i)
    \/ \E task_id \in 0..(MaxTasks + 1) : CallDependencyScore(task_id)
    \/ AnalyzeEmpty
    \/ AnalyzeDetect
    \/ DetectBuild
    \/ LoopCall
    \/ LoopSkip
    \/ LoopEnd
    \/ DfsVisit
    \/ DfsSkip
    \/ DfsCycle
    \/ DfsReturn
    \/ AnalyzeCycle
    \/ AnalyzeScore
    \/ ScoreBegin
    \/ ScoreFinish
    \/ AnalyzeSort
    \/ \E count \in 0..MaxCount : SuggestBuild(count)
    \/ Tick

Spec == Init /\ [][Next]_vars

\* A running call is not suspended for ever: the interpreter executes its
\* next statement.
Step ==
    \/ AnalyzeEmpty \/ AnalyzeDetect \/ DetectBuild \/ LoopCall \/ LoopSkip \/ LoopEnd
    \/ DfsVisit \/ DfsSkip \/ DfsCycle \/ DfsReturn \/ AnalyzeCycle \/ AnalyzeScore
    \/ ScoreBegin \/ ScoreFinish \/ AnalyzeSort
    \/ \E count \in 0..MaxCount : SuggestBuild(count)

FairSpec == Spec /\ WF_vars(Step)

\* detect_circular_dependencies called on its own: it reads no clock and
\* runs to its return.
DetectStep ==
    \/ DetectBuild \/ LoopCall \/ LoopSkip \/ LoopEnd
    \/ DfsVisit \/ DfsSkip \/ DfsCycle \/ DfsReturn

DetectNext == CallDetect \/ DetectStep

DetectSpec == Init /\ [][DetectNext]_vars /\ WF_vars(DetectStep)

(***************************************************************************)
(* The factor scorers called on their own.                                 *)
(***************************************************************************)
DueDates == (0 - MaxOverdue)..MaxDue
ImportanceRatings == 0..MaxImportance
HourEstimates == 1..MaxHours

\* scorer.calculate_urgency_score(due_date): line 58 reads the clock
CallUrgency(due_date) ==
    /\ pc = "idle"
    /\ op' = "calculate_urgency_score"
    /\ arg' = due_date
    /\ factor_ret' = <<calculate_urgency_score(due_date, today)>>
    /\ pc' = "done"
    /\ UNCHANGED <<inputVars, seen, today, detectVars, scoreVars, analyze_ret,
                   suggestions, dep_ret>>

\* scorer.calculate_importance_score(importance)
CallImportance(importance) ==
    /\ pc = "idle"
    /\ op' = "calculate_importance_score"
    /\ arg' = importance
    /\ factor_ret' = <<calculate_importance_score(importance)>>
    /\ pc' = "done"
    /\ UNCHANGED <<inputVars, seen, today, detectVars, scoreVars, analyze_ret,
                   suggestions, dep_ret>>

\* scorer.calculate_effort_score(estimated_hours)
CallEffort(estimated_hours) ==
    /\ pc = "idle"
    /\ op' = "calculate_effort_score"
    /\ arg' = estimated_hours
    /\ factor_ret' = <<calculate_effort_score(estimated_hours)>>
    /\ pc' = "done"
    /\ UNCHANGED <<inputVars, seen, today, detectVars, scoreVars, analyze_ret,
                   suggestions, dep_ret>>

\* A scorer of any strategy, on any day, and no batch.
FactorInit ==
    /\ tasks = <<>>
    /\ strategy \in StrategyNames
    /\ hashOf \in HashChoices
    /\ hashOf["X"] = 91
    /\ today \in 0..MaxDay
    /\ NoCall

FactorNext ==
    \/ \E due_date \in DueDates : CallUrgency(due_date)
    \/ \E importance \in ImportanceRatings : CallImportance(importance)
    \/ \E estimated_hours \in HourEstimates : CallEffort(estimated_hours)

FactorSpec == FactorInit /\ [][FactorNext]_vars

(***************************************************************************)
(* score_task called on its own, on tasks of every shape: each attribute   *)
(* missing, zero, negative, in range or above range.  An attribute is      *)
(* <<>> when the dict does not carry the key and <<v>> when it carries v.  *)
(***************************************************************************)
MakeTask(title, id, due_date, importance, estimated_hours, dependencies) ==
    [k \in {"title", "dependencies"}
            \cup (IF id = <<>> THEN {} ELSE {"id"})
            \cup (IF due_date = <<>> THEN {} ELSE {"due_date"})
            \cup (IF importance = <<>> THEN {} ELSE {"importance"})
            \cup (IF estimated_hours = <<>> THEN {} ELSE {"estimated_hours"}) |->
        CASE k = "title" -> title
          [] k = "dependencies" -> dependencies
          [] k = "id" -> id[1]
          [] k = "due_date" -> due_date[1]
          [] k = "importance" -> importance[1]
          [] k = "estimated_hours" -> estimated_hours[1]]

ScoreIds == {<<>>, <<0>>, <<1>>}
ScoreDueDates == {<<>>, <<-4>>, <<0>>, <<31>>}
ScoreImportances == {<<>>, <<-3>>, <<0>>, <<1>>, <<3>>, <<10>>, <<15>>}
ScoreHours == {<<>>, <<-100>>, <<0>>, <<50>>, <<926>>}

ScoreTasks ==
    {MakeTask("S", id, due_date, importance, estimated_hours, <<>>) :
        id \in ScoreIds, due_date \in ScoreDueDates,
        importance \in ScoreImportances, estimated_hours \in ScoreHours}

\* the task alone, as Task.save passes it, or with a task that depends on
\* id 1 or on id 0
ScoreBatches ==
    {<<t>> : t \in ScoreTasks}
    \cup {<<t, MakeTask("O", <<2>>, <<>>, <<>>, <<>>, <<d>>)>> : t \in ScoreTasks, d \in {0, 1}}

ScoreInit ==
    /\ tasks \in ScoreBatches
    /\ strategy \in StrategyNames \cup {"unknown"}
    /\ hashOf \in HashChoices
    /\ hashOf["X"] = 91
    /\ today = 0
    /\ NoCall

ScoreNext ==
    \/ \E i \in 1..Len(tasks) : CallScore(i)
    \/ ScoreBegin
    \/ ScoreFinish
    \/ Tick

ScoreSpec == ScoreInit /\ [][ScoreNext]_vars

(***************************************************************************)
(* One scorer called again and again.  Between two calls the caller may    *)
(* take another batch and the date may change; the caller remembers one    *)
(* earlier call and its result.  The locals of a returned call stay as the *)
(* call left them: a call sees fresh ones only where its code creates      *)
(* them.                                                                   *)
(***************************************************************************)
\* task with one more entry in its dependencies
AddEntry(task, u) ==
    [k \in DOMAIN task \cup {"dependencies"} |->
        IF k = "dependencies" THEN Append(Get(task, "dependencies", <<>>), u) ELSE task[k]]

\* the batches the caller starts from: none, a cycle, the tasks of
\* test_complete_task_scoring with the first naming the second twice, and
\* a task without id
RepeatBatches ==
    { <<>>,
      <<T(1, <<2>>), T(2, <<1>>)>>,
      <<F(1, 1, 200, 9, <<2, 2>>), F(2, 5, 300, 7, <<>>)>>,
      <<[title |-> "Y"]>> }

\* identifiers that no task of RepeatBatches carries as its id
SpareIds == {0, 9}

RepeatOps == {"detect_circular_dependencies", "score_task", "analyze_tasks",
              "get_top_suggestions"}

\* the call that has just returned: method, arguments and the date
ThisCall ==
    [op |-> op,
     arg |-> IF op \in {"score_task", "get_top_suggestions"} THEN arg ELSE 0,
     tasks |-> tasks,
     today |-> today]

\* the value it returned
ThisResult ==
    CASE op = "detect_circular_dependencies" -> detect_ret[1]
      [] op = "analyze_tasks" -> analyze_ret[1]
      [] op = "get_top_suggestions" -> suggestions[1]
      [] op = "score_task" -> score_ret[1]

\* The caller takes the returned value, remembers it or not, and goes on
\* with one of the batches nb on one of the days nd.
ReturnTo(nb, nd) ==
    /\ pc = "done"
    /\ op \in RepeatOps
    /\ \/ seen' = {[call |-> ThisCall, result |-> ThisResult]}
       \/ seen' = seen
    /\ op' = "idle"
    /\ pc' = "idle"
    /\ detect_ret' = <<>>
    /\ score_ret' = <<>>
    /\ analyze_ret' = <<>>
    /\ suggestions' = <<>>
    /\ tasks' \in nb
    /\ today' \in nd
    /\ UNCHANGED <<strategy, hashOf, arg, keys, graph, visited, rec_stack, path,
                   cycle_path, frames, loopIdx, entered, sidx, cur, scored_tasks,
                   dep_ret, factor_ret>>

\* the next call is on any batch, the same day or the next
Return == ReturnTo(RepeatBatches, {today, Min(today + 1, MaxDay)})

RepeatInit ==
    /\ tasks \in RepeatBatches
    /\ strategy = "smart_balance"
    /\ hashOf \in HashChoices
    /\ hashOf["X"] = 91
    /\ today = 0
    /\ NoCall

\* Every call runs within one day here; the date changes between calls.
RepeatNext ==
    \/ CallAnalyze
    \/ CallSuggest
    \/ CallDetect
    \/ \E i \in 1..Len(tasks) : CallScore(i)
    \/ Step
    \/ Return

RepeatSpec == RepeatInit /\ [][RepeatNext]_vars

(***************************************************************************)
(* The cycle check and the analysis run on a batch and, the same day, on   *)
(* the batch with one more dependency entry.                               *)
(***************************************************************************)
\* the batch with one entry added to one task, or the batch it came from
Amended(ts) ==
    IF ts \in RepeatBatches
        THEN {[ts EXCEPT ![i] = AddEntry(ts[i], u)] : i \in 1..Len(ts), u \in SpareIds}
        ELSE {b \in RepeatBatches :
                \E i \in 1..Len(b) : \E u \in SpareIds :
                    Len(b) = Len(ts) /\ ts = [b EXCEPT ![i] = AddEntry(b[i], u)]}

ReturnAmend == ReturnTo(Amended(tasks) \cup {tasks}, {today})

AmendNext ==
    \/ CallAnalyze
    \/ CallDetect
    \/ AnalyzeEmpty \/ AnalyzeDetect \/ DetectStep \/ AnalyzeCycle \/ AnalyzeScore
    \/ ScoreBegin \/ ScoreFinish \/ AnalyzeSort
    \/ ReturnAmend

AmendSpec == RepeatInit /\ [][AmendNext]_vars

(***************************************************************************)
(* get_top_suggestions called on its own, with any strategy, on batches    *)
(* that end in each of the four narrative texts.                           *)
(***************************************************************************)
\* none, a cycle, two tasks the first naming the second twice, the batch of
\* test_top_suggestions, and single tasks: overdue, due today, important
\* and due tomorrow, far away, and due tomorrow with a long estimate
SuggestBatches ==
    { <<>>,
      <<T(1, <<2>>), T(2, <<1>>)>>,
      <<F(1, 1, 200, 9, <<2, 2>>), F(2, 5, 300, 7, <<>>)>>,
      <<F(1, 0, 200, 8, <<>>), F(2, 1, 100, 7, <<>>), F(3, 10, 500, 5, <<>>)>>,
      <<F(1, -5, 50, 8, <<>>)>>,
      <<F(1, 0, 100, 9, <<>>)>>,
      <<F(1, 1, 50, 10, <<>>)>>,
      <<F(1, 30, 1000, 3, <<>>)>>,
      <<F(1, 1, 1001, 7, <<>>)>> }

SuggestInit ==
    /\ tasks \in SuggestBatches
    /\ strategy \in StrategyNames \cup {"unknown"}
    /\ hashOf \in HashChoices
    /\ hashOf["X"] = 91
    /\ today = 0
    /\ NoCall

SuggestNext ==
    \/ CallSuggest
    \/ Step
    \/ Tick

SuggestSpec == SuggestInit /\ [][SuggestNext]_vars

(***************************************************************************)
(* Reference notions the properties are stated with.                       *)
(***************************************************************************)
Returned(r) == r # <<>>

\* The identifier a task is known by in the dependency graph: its id, or
\* its position in the batch (from 0) when it carries none.
RefKey(ts, i) == IF "id" \in DOMAIN ts[i] THEN ts[i]["id"] ELSE i - 1

RefDeps(ts, i) == IF "dependencies" \in DOMAIN ts[i] THEN ts[i]["dependencies"] ELSE <<>>

\* The edges task -> dependency of the batch
RefEdges(ts) ==
    UNION { {<<RefKey(ts, i), RefDeps(ts, i)[j]>> : j \in 1..Len(RefDeps(ts, i))} :
            i \in 1..Len(ts) }

RECURSIVE RefReach(_, _, _)
RefReach(E, S, k) ==
    IF k = 0 THEN S
    ELSE RefReach(E, S \cup {e[2] : e \in {x \in E : x[1] \in S}}, k - 1)

\* Some node reaches itself along one edge or more.
RefHasCycle(ts) ==
    LET E == RefEdges(ts) IN
    \E e \in E : e[1] \in RefReach(E, {e[2]}, Cardinality(E))

\* Every task carries an id and no two tasks carry the same.
UniqueIds(ts) ==
    /\ \A i \in 1..Len(ts) : "id" \in DOMAIN ts[i]
    /\ \A i, j \in 1..Len(ts) : i # j => ts[i]["id"] # ts[j]["id"]

\* r is a rearrangement of s
IsPermutation(r, s) ==
    /\ Len(r) = Len(s)
    /\ \E f \in [1..Len(s) -> 1..Len(s)] :
          /\ \A i, j \in 1..Len(s) : i # j => f[i] # f[j]
          /\ \A i \in 1..Len(s) : r[f[i]] = s[i]

NonIncreasing(r) ==
    \A i \in 1..(Len(r) - 1) : r[i].priority_score >= r[i + 1].priority_score

C2_DetectIffCycle ==
    (Returned(detect_ret) /\ UniqueIds(tasks)) =>
        /\ detect_ret[1][1] <=> RefHasCycle(tasks)
        /\ ~RefHasCycle(tasks) => detect_ret[1] = <<FALSE, <<>>>>

\* The detector returned True on a batch of two where the cycle is closed by
\* the second entry of a dependency list whose first entry names no task.
C2_Witness ==
    /\ Returned(detect_ret)
    /\ UniqueIds(tasks)
    /\ Len(tasks) = 2
    /\ detect_ret[1][1]
    /\ \E i \in 1..2 : Len(RefDeps(tasks, i)) = 2 /\ RefDeps(tasks, i)[1] = 3

(***************************************************************************)
(* C3.  In analyze_tasks (called directly or by get_top_suggestions) the   *)
(* cycle check has returned before control is in score_task, and on a      *)
(* batch with a circular dependency control never is in score_task and     *)
(* nothing is ever scored; the call then returns the empty list and the    *)
(* message "Circular dependency detected: " followed by the identifiers    *)
(* of the cycle path separated by " -> ".                                  *)
(***************************************************************************)
InAnalyze == op \in {"analyze_tasks", "get_top_suggestions"}

Scoring == pc \in {"score_begin", "score_urgency"} \/ scored_tasks # <<>> \/ cur # <<>>

IsCycleMessage(msg, cp) ==
    /\ cp # <<>>
    /\ Len(msg) = 2 * Len(cp)
    /\ msg[1] = "Circular dependency detected: "
    /\ \A i \in 1..Len(cp) : msg[2 * i] = ToString(cp[i])
    /\ \A i \in 1..(Len(cp) - 1) : msg[2 * i + 1] = " -> "

C3_CheckBeforeScoring ==
    InAnalyze =>
        /\ Scoring => (Returned(detect_ret) /\ ~detect_ret[1][1])
        /\ RefHasCycle(tasks) => ~Scoring
        /\ (RefHasCycle(tasks) /\ Returned(analyze_ret)) =>
              /\ analyze_ret[1][1] = <<>>
              /\ IsCycleMessage(analyze_ret[1][2], detect_ret[1][2])

\* analyze_tasks returned on the cycle 1 -> 3 -> 2 of three tasks.
C3_Witness ==
    /\ InAnalyze
    /\ Len(tasks) = 3
    /\ RefHasCycle(tasks)
    /\ Returned(analyze_ret)
    /\ Len(analyze_ret[1][2]) = 6

NoRepeats(p) == \A i, j \in 1..Len(p) : i # j => p[i] # p[j]

C5_PathIsCycle ==
    (Returned(detect_ret) /\ detect_ret[1][1]) =>
        LET p == detect_ret[1][2] IN
        /\ p # <<>>
        /\ NoRepeats(p)
        /\ p[1] \in rec_stack
        /\ p[1] = graph[frames[Len(frames)].node][frames[Len(frames)].i]
        /\ p[Len(p)] = frames[Len(frames)].node
        /\ \A i \in 2..Len(p) : <<p[i - 1], p[i]>> \in RefEdges(tasks)
        /\ <<p[Len(p)], p[1]>> \in RefEdges(tasks)

\* A cycle was returned that leaves out the start of the traversal path.
C5_Witness ==
    /\ Returned(detect_ret)
    /\ detect_ret[1][1]
    /\ Len(detect_ret[1][2]) < Len(path)

(***************************************************************************)
(* C6.  detect_circular_dependencies terminates on every batch (self-      *)
(* loops, longer cycles, repeated dependency entries and entries naming no *)
(* task included): once it has built its graph it returns; and dfs is      *)
(* entered at most once on any node.                                       *)
(***************************************************************************)
C6_DetectTerminates ==
    /\ [](NoRepeats(entered))
    /\ (pc = "build") ~> Returned(detect_ret)

\* The detector returned after passing over a repeated dependency entry and
\* after entering a node that is no task of the batch.
C6_Witness ==
    /\ Returned(detect_ret)
    /\ \E i \in 1..Len(entered) : \A j \in 1..Len(tasks) : RefKey(tasks, j) # entered[i]
    /\ \E i \in 1..Len(tasks) :
          /\ Len(RefDeps(tasks, i)) >= 2
          /\ RefDeps(tasks, i)[1] = RefDeps(tasks, i)[2]

(***************************************************************************)
(* C7.  get_top_suggestions(tasks, k), k >= 0, returns the empty sequence  *)
(* when analyze_tasks reports an error, which it does exactly for an empty *)
(* or cyclic batch, and otherwise exactly min(k, n) suggestions for the n  *)
(* tasks of the batch; the suggestion at position i has rank i, wraps the  *)
(* i-th element of the sorted result of analyze_tasks and carries that     *)
(* task's priority_score as its score.                                     *)
(***************************************************************************)
C7_TopSuggestions ==
    (op = "get_top_suggestions" /\ Returned(suggestions)) =>
        LET sg == suggestions[1]
            sorted == analyze_ret[1][1]
            err == analyze_ret[1][2]
        IN  /\ (err # None) <=> (tasks = <<>> \/ RefHasCycle(tasks))
            /\ err # None => sg = <<>>
            /\ err = None =>
                  /\ Len(sg) = (IF arg <= Len(tasks) THEN arg ELSE Len(tasks))
                  /\ \A i \in 1..Len(sg) :
                        /\ sg[i].rank = i
                        /\ sg[i].task = sorted[i]
                        /\ sg[i].score = sorted[i].priority_score

\* test_top_suggestions: two suggestions out of a batch of three.
C7_Witness ==
    /\ op = "get_top_suggestions"
    /\ Returned(suggestions)
    /\ Len(tasks) = 3
    /\ arg = 2
    /\ Len(suggestions[1]) = 2
    /\ suggestions[1][2].rank = 2

(***************************************************************************)
(* C8.  score_task on a task that carries a title and nothing else returns *)
(* a record with due_date = today + 7, days_until_due = 7, importance = 5, *)
(* estimated_hours = 2.0, dependencies = [] and priority_score > 0.        *)
(***************************************************************************)
C8_MinimalTaskDefaults ==
    (op = "score_task" /\ Returned(score_ret) /\ DOMAIN tasks[arg] = {"title"}) =>
        /\ score_ret[1].due_date = today + 7
        /\ score_ret[1].days_until_due = 7
        /\ score_ret[1].importance = 5
        /\ score_ret[1].estimated_hours = 200
        /\ score_ret[1].dependencies = <<>>
        /\ score_ret[1].priority_score > 0

(***************************************************************************)
(* C9.  Within one analyze_tasks call every task is scored against one     *)
(* value of today: there is a day d with days_until_due = due_date - d for *)
(* every record of the result, so two records with the same due_date have  *)
(* the same days_until_due and the same urgency_score.                     *)
(***************************************************************************)
C9_OneToday ==
    (InAnalyze /\ Returned(analyze_ret)) =>
        LET r == analyze_ret[1][1] IN
        /\ \E d \in 0..MaxDay : \A i \in 1..Len(r) : r[i].days_until_due = r[i].due_date - d
        /\ \A i, j \in 1..Len(r) :
              r[i].due_date = r[j].due_date =>
                  /\ r[i].days_until_due = r[j].days_until_due
                  /\ r[i].urgency_score = r[j].urgency_score

(***************************************************************************)
(* C10.  calculate_dependency_score(t, batch) returns as dependent_count   *)
(* the number of tasks of the batch other than t itself whose dependencies *)
(* contain t (a task naming t several times counts once), and the score 10 *)
(* for count 0, 40 for 1, 70 for 2 and min(100, 70 + (count - 2) * 15)     *)
(* above.                                                                  *)
(***************************************************************************)
RefContains(ts, i, t) == \E j \in 1..Len(RefDeps(ts, i)) : RefDeps(ts, i)[j] = t

\* tasks other than the one carrying id t whose dependencies contain t
RefOtherDependents(t, ts) ==
    Cardinality({i \in 1..Len(ts) :
                    /\ ~("id" \in DOMAIN ts[i] /\ ts[i]["id"] = t)
                    /\ RefContains(ts, i, t)})

RefLadder(n) ==
    CASE n = 0 -> 1000
      [] n = 1 -> 4000
      [] n = 2 -> 7000
      [] n > 2 -> IF 7000 + (n - 2) * 1500 < 10000 THEN 7000 + (n - 2) * 1500 ELSE 10000

C10_OtherDependents ==
    (op = "calculate_dependency_score" /\ Returned(dep_ret)) =>
        /\ dep_ret[1][2] = RefOtherDependents(arg, tasks)
        /\ dep_ret[1][1] = RefLadder(RefOtherDependents(arg, tasks))

(***************************************************************************)
(* C11.  For every integer days_until_due d, calculate_urgency_score       *)
(* returns the first matching rule of: d < 0 gives min(100, 80 + 4|d|);    *)
(* d = 0 gives exactly 95; 1..3 gives 90 - 5d; 4..7 gives 70 - 5(d - 3);   *)
(* 8..14 gives 50 - 2(d - 7); 15..30 gives max(10, 30 - (d - 14)); d > 30  *)
(* gives max(5, 20 - d/10).  The bounds 3, 7, 14 and 30 fall in the lower  *)
(* range (75, 50, 36 and 14), the second component of the result is d and  *)
(* the score lies in [0, 100].                                             *)
(***************************************************************************)
RefUrgency(d) ==
    CASE d < 0 -> (IF 8000 + 400 * (0 - d) < 10000 THEN 8000 + 400 * (0 - d) ELSE 10000)
      [] d = 0 -> 9500
      [] d \in 1..3 -> 9000 - 500 * d
      [] d \in 4..7 -> 7000 - 500 * (d - 3)
      [] d \in 8..14 -> 5000 - 200 * (d - 7)
      [] d \in 15..30 -> (IF 3000 - 100 * (d - 14) > 1000 THEN 3000 - 100 * (d - 14) ELSE 1000)
      [] d > 30 -> (IF 2000 - 10 * d > 500 THEN 2000 - 10 * d ELSE 500)

C11_UrgencyRules ==
    (op = "calculate_urgency_score" /\ Returned(factor_ret)) =>
        LET d == arg - today
            score == factor_ret[1][1]
        IN  /\ factor_ret[1][2] = d
            /\ score = RefUrgency(d)
            /\ d = 3 => score = 7500
            /\ d = 7 => score = 5000
            /\ d = 14 => score = 3600
            /\ d = 30 => score = 1400
            /\ score >= 0
            /\ score <= 10000

\* The urgency scorer returned for a due date exactly 30 days ahead.
C11_Witness ==
    /\ op = "calculate_urgency_score"
    /\ Returned(factor_ret)
    /\ arg - today = 30
    /\ factor_ret[1] = <<1400, 30>>

(***************************************************************************)
(* C12.  For every importance i in 1..10, calculate_importance_score(i)    *)
(* lies in [0, 100] and no larger rating up to 10 scores lower; in         *)
(* particular score(7) <= score(8) and score(9) <= score(10).              *)
(***************************************************************************)
C12_ImportanceMonotone ==
    (op = "calculate_importance_score" /\ Returned(factor_ret) /\ arg \in 1..10) =>
        /\ factor_ret[1] >= 0
        /\ factor_ret[1] <= 10000
        /\ \A j \in arg..10 : factor_ret[1] <= calculate_importance_score(j)

\* The importance scorer returned the boosted score of rating 8.
C12_Witness ==
    /\ op = "calculate_importance_score"
    /\ Returned(factor_ret)
    /\ arg = 8
    /\ factor_ret[1] = 8800

(***************************************************************************)
(* C13.  For all positive estimated_hours h1 <= h2,                        *)
(* calculate_effort_score(h1) >= calculate_effort_score(h2), across the    *)
(* breakpoints 0.5, 1, 2, 4, 8 and into the tail max(10, 100 - 8h); the    *)
(* score lies in [10, 95].                                                 *)
(***************************************************************************)
C13_EffortMonotone ==
    (op = "calculate_effort_score" /\ Returned(factor_ret)) =>
        /\ factor_ret[1] >= 1000
        /\ factor_ret[1] <= 9500
        /\ \A h2 \in arg..MaxHours : factor_ret[1] >= calculate_effort_score(h2)

\* The effort scorer returned for an estimate just behind the 8 hour bound.
C13_Witness ==
    /\ op = "calculate_effort_score"
    /\ Returned(factor_ret)
    /\ arg = 801
    /\ factor_ret[1] = 3592

(***************************************************************************)
(* C14.  The priority_score score_task reports is the sum, rounded to two  *)
(* decimals, of the four factor scores weighted by the weight set of the   *)
(* scorer's strategy; a scorer constructed with a name that is none of the *)
(* four predefined strategies uses the smart_balance weights 0.35, 0.30,   *)
(* 0.20, 0.15; each predefined weight set sums to 1.                       *)
(***************************************************************************)
RefWeights(s) ==
    CASE s = "fastest_wins" -> <<20, 15, 50, 15>>
      [] s = "high_impact" -> <<20, 60, 10, 10>>
      [] s = "deadline_driven" -> <<70, 20, 5, 5>>
      [] OTHER -> <<35, 30, 20, 15>>

C14_WeightedSum ==
    /\ \A s \in StrategyNames :
          Weights(s).urgency + Weights(s).importance + Weights(s).effort
              + Weights(s).dependency = 100
    /\ (op = "score_task" /\ Returned(score_ret)) =>
          LET r == score_ret[1]
              w == RefWeights(strategy)
          IN  r.priority_score =
                  Round2(w[1] * r.urgency_score + w[2] * r.importance_score
                         + w[3] * r.effort_score + w[4] * r.dependency_score)

\* A scorer constructed with an unknown name scored a task whose four
\* factor scores differ.
C14_Witness ==
    /\ op = "score_task"
    /\ Returned(score_ret)
    /\ strategy = "unknown"
    /\ Cardinality({score_ret[1].urgency_score, score_ret[1].importance_score,
                     score_ret[1].effort_score, score_ret[1].dependency_score}) = 4

(***************************************************************************)
(* C15.  In every record returned by score_task, priority_level agrees     *)
(* with the priority_score of the same record: High exactly when the score *)
(* is >= 75, Medium exactly when 50 <= score < 75, Low exactly when the    *)
(* score is < 50.                                                          *)
(***************************************************************************)
C15_LevelMatchesScore ==
    (op = "score_task" /\ Returned(score_ret)) =>
        LET r == score_ret[1] IN
        /\ r.priority_level = "High" <=> r.priority_score >= 7500
        /\ r.priority_level = "Medium" <=>
              (r.priority_score >= 5000 /\ r.priority_score < 7500)
        /\ r.priority_level = "Low" <=> r.priority_score < 5000

(***************************************************************************)
(* C16.  Whatever importance and estimated_hours the task carries, the     *)
(* record returned by score_task has importance in 1..10 and               *)
(* estimated_hours > 0: importance below 1 becomes 1 and above 10 becomes  *)
(* 10, missing importance becomes 5, missing or non-positive               *)
(* estimated_hours becomes 2.0, and values in range are kept.              *)
(***************************************************************************)
C16_AttributesNormalised ==
    (op = "score_task" /\ Returned(score_ret)) =>
        LET t == tasks[arg]
            r == score_ret[1]
        IN  /\ r.importance \in 1..10
            /\ r.estimated_hours > 0
            /\ "importance" \notin DOMAIN t => r.importance = 5
            /\ "importance" \in DOMAIN t =>
                  r.importance = (IF t["importance"] < 1 THEN 1
                                  ELSE IF t["importance"] > 10 THEN 10
                                  ELSE t["importance"])
            /\ "estimated_hours" \notin DOMAIN t => r.estimated_hours = 200
            /\ "estimated_hours" \in DOMAIN t =>
                  r.estimated_hours = (IF t["estimated_hours"] <= 0 THEN 200
                                       ELSE t["estimated_hours"])

(***************************************************************************)
(* C17.  No operation carries state across calls: whenever a call of       *)
(* detect_circular_dependencies, score_task, analyze_tasks or              *)
(* get_top_suggestions returns, and the caller remembers an earlier call   *)
(* of the same method with the same arguments on the same day, whatever    *)
(* calls came in between (calls that found a cycle included), the two      *)
(* results are identical.                                                  *)
(***************************************************************************)
C17_NoStateAcrossCalls ==
    (pc = "done" /\ op \in RepeatOps) =>
        \A e \in seen : e.call = ThisCall => e.result = ThisResult

\* The detector found the cycle a second time, and analyze_tasks was called
\* before: scored_tasks is what it left.
C17_Witness ==
    /\ pc = "done"
    /\ op = "detect_circular_dependencies"
    /\ detect_ret[1][1]
    /\ scored_tasks # <<>>
    /\ \E e \in seen : e.call = ThisCall /\ e.result = ThisResult

(***************************************************************************)
(* C18.  A dependency entry that names an identifier no task of the batch  *)
(* carries is harmless: the batch with the entry and the batch without it  *)
(* get the same has_cycle from detect_circular_dependencies and, from      *)
(* analyze_tasks on the same day, the same tasks at the same positions     *)
(* with the same factor scores and priority_score.                         *)
(***************************************************************************)
\* b2 is b with one entry u added to one task, u the id of no task of b
AddsUnknown(b, b2) ==
    /\ Len(b) = Len(b2)
    /\ \E i \in 1..Len(b) : \E u \in SpareIds :
          /\ \A j \in 1..Len(b) : "id" \in DOMAIN b[j] => b[j]["id"] # u
          /\ DOMAIN b2[i] = DOMAIN b[i] \cup {"dependencies"}
          /\ \A k \in DOMAIN b[i] \ {"dependencies"} : b2[i][k] = b[i][k]
          /\ b2[i]["dependencies"] = RefDeps(b, i) \o <<u>>
          /\ \A j \in 1..Len(b) : j # i => b2[j] = b[j]

SameScores(r1, r2) ==
    /\ r1.title = r2.title
    /\ r1.urgency_score = r2.urgency_score
    /\ r1.importance_score = r2.importance_score
    /\ r1.effort_score = r2.effort_score
    /\ r1.dependency_score = r2.dependency_score
    /\ r1.priority_score = r2.priority_score

SameOutcome(o, r1, r2) ==
    IF o = "detect_circular_dependencies" THEN r1[1] = r2[1]
    ELSE /\ r1[2] = None <=> r2[2] = None
         /\ Len(r1[1]) = Len(r2[1])
         /\ \A k \in 1..Len(r1[1]) : SameScores(r1[1][k], r2[1][k])

C18_UnknownEntriesHarmless ==
    (pc = "done" /\ op \in {"detect_circular_dependencies", "analyze_tasks"}) =>
        \A e \in seen :
            (/\ e.call.op = op
             /\ e.call.today = today
             /\ AddsUnknown(e.call.tasks, tasks) \/ AddsUnknown(tasks, e.call.tasks))
            => SameOutcome(op, e.result, ThisResult)

(***************************************************************************)
(* C19.  The sort of analyze_tasks is stable under descending order: the   *)
(* result arranges the records scored in input order so that of two        *)
(* records with equal priority_score the one scored first (first in the    *)
(* input batch) comes first.                                               *)
(***************************************************************************)
C19_StableSort ==
    (InAnalyze /\ Returned(analyze_ret) /\ analyze_ret[1][2] = None) =>
        LET r == analyze_ret[1][1] IN
        \E f \in [1..Len(r) -> 1..Len(scored_tasks)] :
            /\ \A k, l \in 1..Len(r) : k # l => f[k] # f[l]
            /\ \A k \in 1..Len(r) : r[k] = scored_tasks[f[k]]
            /\ \A k, l \in 1..Len(r) :
                  (k < l /\ r[k].priority_score = r[l].priority_score) => f[k] < f[l]

\* test_dependency_score_calculation's batch: the three tasks that depend
\* on the first have equal priority_score and were returned in input order.
C19_Witness ==
    /\ InAnalyze
    /\ Returned(analyze_ret)
    /\ Len(analyze_ret[1][1]) = 4
    /\ \A k \in 2..4 :
          /\ analyze_ret[1][1][k].id = k
          /\ analyze_ret[1][1][k].priority_score = analyze_ret[1][1][2].priority_score

(***************************************************************************)
(* C20.  For every task that supplies an integer id, 0 included, the       *)
(* record returned by score_task carries that id, its dependency score is  *)
(* the one of that id, and detect_circular_dependencies registers the task *)
(* under that id; the identifier derived from the title appears only for   *)
(* a task without id.                                                      *)
(***************************************************************************)
C20_SuppliedIdKept ==
    (op = "score_task" /\ Returned(score_ret) /\ "id" \in DOMAIN tasks[arg]) =>
        /\ score_ret[1].id = tasks[arg]["id"]
        /\ score_ret[1].dependency_score
              = calculate_dependency_score(tasks[arg]["id"], tasks)[1]
        /\ KeyOf(tasks, arg) = tasks[arg]["id"]

(***************************************************************************)
(* C21.  Urgency decays with the distance to the deadline: for any two     *)
(* values d1 < d2 of days_until_due (overdue, today or future)             *)
(* calculate_urgency_score gives d1 a score at least that of d2; so no     *)
(* task due later scores above one due earlier or more overdue, and none   *)
(* due beyond 30 days scores above one due within 30 days.                 *)
(***************************************************************************)
C21_UrgencyDecays ==
    (op = "calculate_urgency_score" /\ Returned(factor_ret)) =>
        \A due_date \in DueDates :
            arg < due_date => factor_ret[1][1] >= calculate_urgency_score(due_date, today)[1]

(***************************************************************************)
(* C22.  The narrative explanation of each suggestion is chosen by the     *)
(* first matching rule of: days_until_due < 0 gives the overdue text;      *)
(* days_until_due = 0 the due-today text; priority_score >= 75 the         *)
(* high-priority text; otherwise the balanced-factors text.  Every variant *)
(* starts with the suggestion's own rank, counted from 1, and ends with    *)
(* the task's own explanation, and the high-priority text is used only for *)
(* tasks whose priority_level is High.                                     *)
(***************************************************************************)
RefNarrative(task) ==
    CASE task.days_until_due < 0 ->
            "This task is overdue and should be addressed immediately. "
      [] task.days_until_due = 0 -> "This task is due today. "
      [] task.days_until_due > 0 /\ task.priority_score >= 7500 -> "High priority task. "
      [] OTHER -> "Recommended based on balanced factors. "

C22_NarrativeRules ==
    (op = "get_top_suggestions" /\ Returned(suggestions)) =>
        \A i \in 1..Len(suggestions[1]) :
            LET sg == suggestions[1][i] IN
            /\ sg.explanation = <<"Suggestion #", ToString(i), ": ", RefNarrative(sg.task)>>
                                    \o sg.task.explanation
            /\ sg.explanation[4] = "High priority task. " => sg.task.priority_level = "High"

====
